---- MODULE Spec2Model ----
(***************************************************************************)
(* Model of the local Qwen server (src/local-models/qwen_server.py) and    *)
(* of its test launcher (src/test-qwen-local.py).                          *)
(*                                                                         *)
(* Text is modelled as a sequence of one-character strings, so that the    *)
(* substring test, the slice, str.replace and str.strip of the handler are *)
(* computed character by character, as Python computes them.               *)
(***************************************************************************)
EXTENDS Naturals, Sequences, FiniteSets, TLC

VARIABLES
    launch,        \* how the process was started: "server", "harness", "embedded"
    phase,         \* "main", "startup", "serving", "exited"
    cuda,          \* torch.cuda.is_available()
    bnb,           \* whether bitsandbytes can be imported
    qwenModel,     \* value read for QWEN_MODEL
    model,         \* the global model handle
    tokenizer,     \* the global tokenizer handle
    loads,         \* log of the load_model calls made so far
    slots,         \* the /generate requests in flight
    current,       \* the request whose handler holds the event loop, 0 if none
    lastResponse,  \* the response most recently sent
    failedBefore,  \* some /generate call was answered from the except clause
    fn             \* the pipeline of one /generate call on arbitrary inputs

vars == <<launch, phase, cuda, bnb, qwenModel, model, tokenizer, loads,
          slots, current, lastResponse, failedBefore, fn>>

serverVars == <<launch, phase, cuda, bnb, qwenModel, model, tokenizer, loads,
                slots, current, lastResponse, failedBefore>>

(***************************************************************************)
(* Bounds of the model.                                                    *)
(***************************************************************************)
NumRequests == 2
MaxMessages == 2

(***************************************************************************)
(* Text.                                                                   *)
(***************************************************************************)
IM_START == <<"<", "|", "i", "m", "_", "s", "t", "a", "r", "t", "|", ">">>
IM_END == <<"<", "|", "i", "m", "_", "e", "n", "d", "|", ">">>
NL == <<"\n">>

Whitespace == {" ", "\t", "\n", "\r", "\f"}

\* generated[n:]
Slice(s, n) == SubSeq(s, n + 1, Len(s))

\* sub in s
Contains(s, sub) ==
    \E i \in 0..Len(s) : i + Len(sub) <= Len(s) /\ SubSeq(s, i + 1, i + Len(sub)) = sub

\* s.replace(old, ""), old not empty: one scan from the left, the matches
\* found do not overlap and the result is not scanned again
RECURSIVE Replace(_, _)
Replace(s, old) ==
    IF Len(s) < Len(old) THEN s
    ELSE IF SubSeq(s, 1, Len(old)) = old THEN Replace(Slice(s, Len(old)), old)
    ELSE <<Head(s)>> \o Replace(Tail(s), old)

RECURSIVE LStrip(_)
LStrip(s) == IF s # <<>> /\ Head(s) \in Whitespace THEN LStrip(Tail(s)) ELSE s

RECURSIVE RStrip(_)
RStrip(s) ==
    IF s # <<>> /\ s[Len(s)] \in Whitespace THEN RStrip(SubSeq(s, 1, Len(s) - 1)) ELSE s

\* s.strip()
Strip(s) == RStrip(LStrip(s))

(***************************************************************************)
(* format_messages                                                         *)
(***************************************************************************)
\* one iteration of the loop: the if / elif / elif chain, with no else
AppendUnknownAsUser(formatted, message) ==
    IF message.role = "system"
    THEN formatted \o IM_START \o <<"s", "y", "s", "t", "e", "m">> \o NL
                   \o message.content \o IM_END \o NL
    ELSE IF message.role = "assistant"
    THEN formatted \o IM_START \o <<"a", "s", "s", "i", "s", "t", "a", "n", "t">> \o NL
                   \o message.content \o IM_END \o NL
    ELSE formatted \o IM_START \o <<"u", "s", "e", "r">> \o NL
                   \o message.content \o IM_END \o NL

AppendMessage(formatted, message) ==
    IF message.role = "system"
    THEN formatted \o IM_START \o <<"s", "y", "s", "t", "e", "m">> \o NL
                   \o message.content \o IM_END \o NL
    ELSE IF message.role = "user"
    THEN formatted \o IM_START \o <<"u", "s", "e", "r">> \o NL
                   \o message.content \o IM_END \o NL
    ELSE IF message.role = "assistant"
    THEN formatted \o IM_START \o <<"a", "s", "s", "i", "s", "t", "a", "n", "t">> \o NL
                   \o message.content \o IM_END \o NL
    ELSE formatted

RECURSIVE FormatLoop(_, _, _)
FormatLoop(messages, i, formatted) ==
    IF i > Len(messages) THEN formatted
    ELSE FormatLoop(messages, i + 1, AppendMessage(formatted, messages[i]))

TrailerTwice(formatted) ==
    formatted \o IM_START \o <<"a", "s", "s", "i", "s", "t", "a", "n", "t">> \o NL
              \o IM_START \o <<"a", "s", "s", "i", "s", "t", "a", "n", "t">> \o NL

\* the statement after the loop
AppendTrailer(formatted) ==
    formatted \o IM_START \o <<"a", "s", "s", "i", "s", "t", "a", "n", "t">> \o NL

format_messages(messages) == AppendTrailer(FormatLoop(messages, 1, <<>>))

(***************************************************************************)
(* The text returned by /generate, from the prompt and the decoded output. *)
(***************************************************************************)
ExtractResponse(prompt, generated) ==
    LET response_text == IF Contains(generated, prompt)
                         THEN Slice(generated, Len(prompt))
                         ELSE generated
    IN  Strip(Replace(response_text, IM_END))

(***************************************************************************)
(* The handles and load_model.                                             *)
(***************************************************************************)
None == [kind |-> "None"]

DEFAULT_MODEL == "Qwen/Qwen3-Coder-30B-A3B-Instruct"
CPU_MODEL == "Qwen/Qwen2.5-Coder-7B-Instruct"
HARNESS_MODEL == "Qwen/Qwen2.5-Coder-1.5B-Instruct"

\* "30B" in model_name or "32B" in model_name, over the names used here
Has30Bor32B(model_name) ==
    model_name \in {DEFAULT_MODEL, "Qwen/Qwen2.5-Coder-32B-Instruct"}

\* What the runtime answers to one load_model call: whether the set-up
\* (makedirs, the quantization config), the tokenizer fetch, the first
\* model fetch, model.to(device) and the fallback fetch return or raise.
LoadOutcomes ==
    [setupOk : BOOLEAN, tokenizerOk : BOOLEAN, firstOk : BOOLEAN,
     toOk : BOOLEAN, fallbackOk : BOOLEAN]

AlwaysFallback(device, firstOk, toOk) == TRUE

\* whether the try block of load_model leaves through its except clause
FirstPathRaised(device, firstOk, toOk) ==
    ~firstOk \/ (device = "cpu" /\ ~toOk)

\* load_model(model_name) called as the call-th load of the process, with
\* the handles m0 and t0 before it.  The result gives the handles after the
\* call, whether it raised, and the calls made to the runtime.
LoadModel(model_name, call, m0, t0, o) ==
    LET device == IF cuda THEN "cuda" ELSE "cpu"
        quantization_config == cuda /\ bnb
        name == IF ~cuda /\ Has30Bor32B(model_name) THEN CPU_MODEL ELSE model_name
        first_kind == IF quantization_config THEN "4bit" ELSE "full"
        tok == [kind |-> "tokenizer", name |-> name, call |-> call]
        m1 == [kind |-> "model", name |-> name, how |-> first_kind, call |-> call]
        m2 == [kind |-> "model", name |-> name, how |-> "offload", call |-> call]
        base == [call |-> call, name |-> name, device |-> device,
                 modelBefore |-> m0, tokenizerBefore |-> t0]
    IN  IF ~o.setupOk
        THEN base @@ [raised |-> TRUE, model |-> m0, tokenizer |-> t0,
                      tokenizerFetched |-> FALSE, fetches |-> <<>>, moved |-> "skipped"]
        ELSE IF ~o.tokenizerOk
        THEN base @@ [raised |-> TRUE, model |-> m0, tokenizer |-> t0,
                      tokenizerFetched |-> TRUE, fetches |-> <<>>, moved |-> "skipped"]
        ELSE LET first == [how |-> first_kind, ok |-> o.firstOk]
                 moved == IF o.firstOk /\ device = "cpu"
                          THEN (IF o.toOk THEN "ok" ELSE "raised")
                          ELSE "skipped"
                 afterTry == IF o.firstOk THEN m1 ELSE m0
             IN  IF FirstPathRaised(device, o.firstOk, o.toOk)
                 THEN base @@ [raised |-> ~o.fallbackOk,
                               model |-> IF o.fallbackOk THEN m2 ELSE afterTry,
                               tokenizer |-> tok, tokenizerFetched |-> TRUE,
                               fetches |-> <<first, [how |-> "offload", ok |-> o.fallbackOk]>>,
                               moved |-> moved]
                 ELSE base @@ [raised |-> FALSE, model |-> afterTry,
                               tokenizer |-> tok, tokenizerFetched |-> TRUE,
                               fetches |-> <<first>>, moved |-> moved]

\* `not model or not tokenizer`: a loaded model or tokenizer object is truthy
NoHandleCheck(m, t) == FALSE

HandlesMissing(m, t) == m = None \/ t = None

(***************************************************************************)
(* Requests, responses and what the runtime may answer.                    *)
(***************************************************************************)
MAX_LENGTH == 32768

Requests == 1..NumRequests

Hi == <<"H", "i">>
Ok == <<"o", "k">>

\* request bodies sent to the running server
RequestBodies ==
    { <<[role |-> "user", content |-> Hi]>>,
      <<[role |-> "system", content |-> Ok], [role |-> "tool", content |-> Hi]>> }

\* exceptions the tokenizer, the generation config, generate or decode raise
Exceptions ==
    { [type |-> "RuntimeError", message |-> "CUDA out of memory"],
      [type |-> "ValueError", message |-> "temperature must be positive"] }

\* calling a handle that is None
NoneTypeError == [type |-> "TypeError", message |-> "'NoneType' object is not callable"]

\* what tokenizer.decode(outputs[0]) may return for a prompt: with or without
\* text before the prompt, with or without the prompt echoed, then a completion
DecodedTexts(prompt, prefixes, completions) ==
    { pre \o echo \o c : pre \in prefixes, echo \in {prompt, <<>>}, c \in completions }

ServerCompletions == { Ok \o IM_END, <<" ">> \o Ok \o NL, IM_END \o Ok \o IM_END }

\* len(inputs.input_ids[0]) and the number of new tokens in outputs[0]
PromptTokenCounts == {1, MAX_LENGTH}
NewTokenCounts == {1}

ErrorDetailType(e) == e.type

\* str(e)
ErrorDetail(e) == e.message

AwaitsAlways == TRUE

\* whether the handler gives the event loop back while model.generate runs:
\* the body of generate holds no await, model.generate is an ordinary call
AwaitsInGenerate == FALSE

NoResponse ==
    [endpoint |-> "none", status |-> 0, body |-> <<>>, sawModel |-> None,
     sawTokenizer |-> None, prompt |-> None, tokenizerCalls |-> 0,
     generateCalls |-> 0, raised |-> None]

IdleSlot == [st |-> "idle"]

(***************************************************************************)
(* The process: start-up.                                                  *)
(***************************************************************************)
NoPipeline == [stage |-> "off"]

\* The process is started by qwen_server.py ("server": uvicorn runs
\* startup_event, then serves), by test-qwen-local.py ("harness": load_model,
\* then the same as "server"), or the app object is served by a host that
\* does not run its startup hook ("embedded": the handles stay None).
Init ==
    /\ launch \in {"server", "harness", "embedded"}
    /\ phase = (IF launch = "harness" THEN "main"
                ELSE IF launch = "server" THEN "startup" ELSE "serving")
    /\ cuda \in BOOLEAN
    /\ bnb \in (IF cuda /\ launch # "embedded" THEN BOOLEAN ELSE {FALSE})
    /\ qwenModel \in (IF launch = "harness" THEN {HARNESS_MODEL}
                      ELSE IF launch = "server" THEN {DEFAULT_MODEL, CPU_MODEL}
                      ELSE {DEFAULT_MODEL})
    /\ model = None
    /\ tokenizer = None
    /\ loads = <<>>
    /\ slots = [r \in Requests |-> IdleSlot]
    /\ current = 0
    /\ lastResponse = NoResponse
    /\ failedBefore = FALSE
    /\ fn = NoPipeline

\* one call of load_model and what follows it: the next phase when it
\* returns, the end of the process when it raises
RunLoad(next) ==
    \E o \in LoadOutcomes :
        LET res == LoadModel(qwenModel, Len(loads) + 1, model, tokenizer, o)
        IN  /\ model' = res.model
            /\ tokenizer' = res.tokenizer
            /\ loads' = Append(loads, res)
            /\ phase' = IF res.raised THEN "exited" ELSE next

\* test-qwen-local.py, __main__: load_model(model_name), then uvicorn.run
HarnessMain ==
    /\ launch = "harness"
    /\ phase = "main"
    /\ RunLoad("startup")
    /\ UNCHANGED <<launch, cuda, bnb, qwenModel, slots, current, lastResponse,
                   failedBefore, fn>>

\* test-qwen-local.py, line 8: the import of local_models.qwen_server does
\* not resolve (the directory is named local-models) and the process ends
HarnessImportFails ==
    /\ launch = "harness"
    /\ phase = "main"
    /\ phase' = "exited"
    /\ UNCHANGED <<launch, cuda, bnb, qwenModel, model, tokenizer, loads, slots,
                   current, lastResponse, failedBefore, fn>>

\* startup_event, run by uvicorn before it accepts requests; when it raises,
\* uvicorn ends the process
StartupEvent ==
    /\ launch \in {"server", "harness"}
    /\ phase = "startup"
    /\ RunLoad("serving")
    /\ UNCHANGED <<launch, cuda, bnb, qwenModel, slots, current, lastResponse,
                   failedBefore, fn>>

(***************************************************************************)
(* The process: requests.  A handler is an async function that never       *)
(* awaits, so once the event loop starts it, it runs to its response.      *)
(***************************************************************************)
\* a POST /generate reaches the server
Arrive(r) ==
    /\ phase = "serving"
    /\ slots[r].st = "idle"
    /\ slots' = [slots EXCEPT ![r] = [st |-> "queued"]]
    /\ UNCHANGED <<launch, phase, cuda, bnb, qwenModel, model, tokenizer, loads,
                   current, lastResponse, failedBefore, fn>>

\* HTTPException(status_code=500, detail=...)
ErrorResponse(detail, prompt, tokCalls, genCalls, exc) ==
    [endpoint |-> "/generate", status |-> 500, body |-> [detail |-> detail],
     sawModel |-> model, sawTokenizer |-> tokenizer, prompt |-> prompt,
     tokenizerCalls |-> tokCalls, generateCalls |-> genCalls, raised |-> exc]

\* generate, from its first statement to the call of model.generate
GenerateBegin(r) ==
    /\ phase = "serving"
    /\ current = 0
    /\ slots[r].st = "queued"
    /\ \E messages \in RequestBodies, out \in {None} \cup Exceptions,
          n \in PromptTokenCounts :
          IF HandlesMissing(model, tokenizer)
          THEN /\ lastResponse' = ErrorResponse("Model not loaded", None, 0, 0, None)
               /\ slots' = [slots EXCEPT ![r] = IdleSlot]
               /\ UNCHANGED <<current, failedBefore>>
          ELSE LET prompt == format_messages(messages)
                   exc == IF tokenizer = None THEN NoneTypeError ELSE out
               IN  IF exc # None
                   THEN /\ lastResponse' = ErrorResponse(ErrorDetail(exc), prompt, 1, 0, exc)
                        /\ slots' = [slots EXCEPT ![r] = IdleSlot]
                        /\ failedBefore' = TRUE
                        /\ UNCHANGED current
                   ELSE /\ slots' = [slots EXCEPT ![r] =
                                        [st |-> "generating", messages |-> messages,
                                         prompt |-> prompt, prompt_tokens |-> n]]
                        /\ current' = IF AwaitsInGenerate THEN 0 ELSE r
                        /\ UNCHANGED <<lastResponse, failedBefore>>
    /\ UNCHANGED <<launch, phase, cuda, bnb, qwenModel, model, tokenizer, loads, fn>>

\* generate, from the return of model.generate to the response
GenerateEnd(r) ==
    /\ phase = "serving"
    /\ slots[r].st = "generating"
    /\ current = (IF AwaitsInGenerate THEN 0 ELSE r)
    /\ \E out \in {None} \cup Exceptions, new \in NewTokenCounts,
          generated \in DecodedTexts(slots[r].prompt, {<<>>}, ServerCompletions) :
          LET prompt == slots[r].prompt
              exc == IF model = None THEN NoneTypeError ELSE out
              prompt_tokens == slots[r].prompt_tokens
              completion_tokens == (prompt_tokens + new) - prompt_tokens
          IN  IF exc # None
              THEN /\ lastResponse' = ErrorResponse(ErrorDetail(exc), prompt, 1, 1, exc)
                   /\ failedBefore' = TRUE
              ELSE /\ lastResponse' =
                          [endpoint |-> "/generate", status |-> 200,
                           body |-> [content |-> ExtractResponse(prompt, generated),
                                     usage |-> [prompt_tokens |-> prompt_tokens,
                                                completion_tokens |-> completion_tokens,
                                                total_tokens |-> prompt_tokens
                                                                 + completion_tokens]],
                           sawModel |-> model, sawTokenizer |-> tokenizer,
                           prompt |-> prompt, tokenizerCalls |-> 2,
                           generateCalls |-> 1, raised |-> None]
                   /\ UNCHANGED failedBefore
    /\ slots' = [slots EXCEPT ![r] = IdleSlot]
    /\ current' = 0
    /\ UNCHANGED <<launch, phase, cuda, bnb, qwenModel, model, tokenizer, loads, fn>>

StaticResponse(endpoint, body) ==
    [endpoint |-> endpoint, status |-> 200, body |-> body, sawModel |-> None,
     sawTokenizer |-> None, prompt |-> None, tokenizerCalls |-> 0,
     generateCalls |-> 0, raised |-> None]

\* GET /
Root ==
    /\ phase = "serving"
    /\ current = 0
    /\ lastResponse' = StaticResponse("/",
            [status |-> "running", model |-> "Qwen3-Coder",
             device |-> IF cuda THEN "cuda" ELSE "cpu"])
    /\ UNCHANGED <<launch, phase, cuda, bnb, qwenModel, model, tokenizer, loads,
                   slots, current, failedBefore, fn>>

\* GET /models
ListModels ==
    /\ phase = "serving"
    /\ current = 0
    /\ lastResponse' = StaticResponse("/models",
            [models |-> <<DEFAULT_MODEL, "Qwen/Qwen2.5-Coder-32B-Instruct", CPU_MODEL>>])
    /\ UNCHANGED <<launch, phase, cuda, bnb, qwenModel, model, tokenizer, loads,
                   slots, current, failedBefore, fn>>

Next ==
    \/ HarnessMain
    \/ HarnessImportFails
    \/ StartupEvent
    \/ \E r \in Requests : Arrive(r)
    \/ \E r \in Requests : GenerateBegin(r)
    \/ \E r \in Requests : GenerateEnd(r)
    \/ Root
    \/ ListModels

Spec == Init /\ [][Next]_vars

(***************************************************************************)
(* The text pipeline of one /generate call (render, decode, extract) on    *)
(* every message sequence and every decoded text within the bounds.        *)
(***************************************************************************)
Roles == {"system", "user", "assistant", "tool", "User"}
Contents == {Hi, <<>>, <<"a", "\n">>}
Messages == [role : Roles, content : Contents]
MessageSeqs == UNION {[1..n -> Messages] : n \in 0..MaxMessages}

PipelinePrefixes == {<<>>, <<"<", "s", ">">>}

PipelineCompletions ==
    { <<>>, Ok, Ok \o IM_END, IM_END \o Ok \o IM_END \o NL, <<" ">> \o Ok \o <<" ", "\n">>,
      <<"<", "|", "i", "m", "_">> \o IM_END \o <<"e", "n", "d", "|", ">">> }

\* every fetch of a load_model call returns
AllOk ==
    [setupOk |-> TRUE, tokenizerOk |-> TRUE, firstOk |-> TRUE, toOk |-> TRUE,
     fallbackOk |-> TRUE]

\* the server after a start-up that succeeded, about to handle one request
PipelineInit ==
    /\ launch = "server"
    /\ phase = "serving"
    /\ cuda = FALSE
    /\ bnb = FALSE
    /\ qwenModel = DEFAULT_MODEL
    /\ loads = <<LoadModel(qwenModel, 1, None, None, AllOk)>>
    /\ model = loads[1].model
    /\ tokenizer = loads[1].tokenizer
    /\ slots = [r \in Requests |-> IdleSlot]
    /\ current = 0
    /\ lastResponse = NoResponse
    /\ failedBefore = FALSE
    /\ fn \in {[stage |-> "input", messages |-> m] : m \in MessageSeqs}

\* prompt = format_messages(request.messages)
Render ==
    /\ fn.stage = "input"
    /\ fn' = [stage |-> "rendered", messages |-> fn.messages,
              prompt |-> format_messages(fn.messages)]
    /\ UNCHANGED serverVars

\* generated = tokenizer.decode(outputs[0], skip_special_tokens=False)
Decode ==
    /\ fn.stage = "rendered"
    /\ \E generated \in DecodedTexts(fn.prompt, PipelinePrefixes, PipelineCompletions) :
          fn' = [stage |-> "decoded", messages |-> fn.messages, prompt |-> fn.prompt,
                 generated |-> generated]
    /\ UNCHANGED serverVars

\* the statements from the substring test to the strip
Extract ==
    /\ fn.stage = "decoded"
    /\ fn' = [stage |-> "extracted", messages |-> fn.messages, prompt |-> fn.prompt,
              generated |-> fn.generated,
              content |-> ExtractResponse(fn.prompt, fn.generated)]
    /\ UNCHANGED serverVars

PipelineNext == Render \/ Decode \/ Extract

PipelineSpec == PipelineInit /\ [][PipelineNext]_vars

(***************************************************************************)
(* Properties of the text pipeline.                                        *)
(***************************************************************************)
Rendered == fn.stage \in {"rendered", "decoded", "extracted"}

RecognizedMessage(m) == m.role \in {"system", "user", "assistant"}

RoleText(role) ==
    CASE role = "system" -> <<"s", "y", "s", "t", "e", "m">>
      [] role = "user" -> <<"u", "s", "e", "r">>
      [] role = "assistant" -> <<"a", "s", "s", "i", "s", "t", "a", "n", "t">>

\* "<|im_start|>ROLE\nCONTENT<|im_end|>\n"
MarkerBlock(m) == IM_START \o RoleText(m.role) \o NL \o m.content \o IM_END \o NL

\* "<|im_start|>assistant\n"
OpenAssistantMarker == IM_START \o RoleText("assistant") \o NL

\* where the block of message i starts in the prompt (0-based offset)
RECURSIVE BlockOffset(_, _)
BlockOffset(messages, i) ==
    IF i = 1 THEN 0
    ELSE BlockOffset(messages, i - 1) + Len(MarkerBlock(messages[i - 1]))

StartsWith(s, p) == Len(p) <= Len(s) /\ SubSeq(s, 1, Len(p)) = p

\* C4: when every role is system, user or assistant, the prompt is made of
\* one marker block per message, at consecutive places in input order, and
\* what follows the last block is exactly one open assistant marker.
C4_MarkerBlocksInOrder ==
    (Rendered /\ \A i \in 1..Len(fn.messages) : RecognizedMessage(fn.messages[i]))
    => /\ \A i \in 1..Len(fn.messages) :
            SubSeq(fn.prompt, BlockOffset(fn.messages, i) + 1,
                   BlockOffset(fn.messages, i) + Len(MarkerBlock(fn.messages[i])))
            = MarkerBlock(fn.messages[i])
       /\ Slice(fn.prompt, BlockOffset(fn.messages, Len(fn.messages) + 1))
            = OpenAssistantMarker

C4_Witness ==
    /\ fn.stage = "rendered"
    /\ Len(fn.messages) = 2
    /\ fn.messages[1].role = "system"
    /\ fn.messages[2].role = "user"
    /\ fn.messages[2].content = Hi

\* C5: a message whose role is not exactly system, user or assistant adds
\* nothing to the prompt: the prompt is the one rendered from the sequence
\* without those messages.
C5_UnknownRolesDropped ==
    Rendered => fn.prompt = format_messages(SelectSeq(fn.messages, RecognizedMessage))

C5_Witness ==
    /\ fn.stage = "rendered"
    /\ Len(fn.messages) = 2
    /\ fn.messages[1].role = "User"
    /\ fn.messages[2].role = "user"

\* C6: the content is the decoded text without the prompt when the decoded
\* text begins with the prompt, and the whole decoded text in every other
\* case, with the end markers removed and the whitespace trimmed.
C6_PrefixStrippedElseFullText ==
    fn.stage = "extracted"
    => fn.content =
         (IF StartsWith(fn.generated, fn.prompt)
          THEN Strip(Replace(Slice(fn.generated, Len(fn.prompt)), IM_END))
          ELSE Strip(Replace(fn.generated, IM_END)))

\* C7: the content holds no end-of-turn marker.
C7_NoEndMarkerInContent ==
    fn.stage = "extracted" => ~Contains(fn.content, IM_END)

(***************************************************************************)
(* Properties of the process.                                              *)
(***************************************************************************)
\* how many of the load_model calls so far wrote the model handle
RECURSIVE ModelWrites(_)
ModelWrites(log) ==
    IF log = <<>> THEN 0
    ELSE (IF Head(log).model # Head(log).modelBefore THEN 1 ELSE 0)
         + ModelWrites(Tail(log))

\* how many of the load_model calls so far wrote the tokenizer handle
RECURSIVE TokenizerWrites(_)
TokenizerWrites(log) ==
    IF log = <<>> THEN 0
    ELSE (IF Head(log).tokenizer # Head(log).tokenizerBefore THEN 1 ELSE 0)
         + TokenizerWrites(Tail(log))

\* C1: a /generate call that finds a handle unset is answered 500 "Model
\* not loaded" with no prompt rendered and no tokenizer or generation call,
\* the handles are as it found them and the process is still serving.
C1_NotLoadedFailsFast ==
    (lastResponse.endpoint = "/generate"
       /\ (lastResponse.sawModel = None \/ lastResponse.sawTokenizer = None))
    => /\ lastResponse.status = 500
       /\ lastResponse.body = [detail |-> "Model not loaded"]
       /\ lastResponse.prompt = None
       /\ lastResponse.tokenizerCalls = 0
       /\ lastResponse.generateCalls = 0
       /\ model = lastResponse.sawModel
       /\ tokenizer = lastResponse.sawTokenizer
       /\ phase = "serving"

C1_Witness ==
    /\ lastResponse.endpoint = "/generate"
    /\ lastResponse.sawModel = None
    /\ lastResponse.status = 500
    /\ \E r \in Requests : slots[r].st = "queued"

\* C2: once the process started by qwen_server.py or by the test launcher
\* serves, each handle has been written exactly once (by one load_model
\* call, counting all the writes of one call as one).
C2_HandlesWrittenOnce ==
    (launch \in {"server", "harness"} /\ phase = "serving")
    => (ModelWrites(loads) = 1 /\ TokenizerWrites(loads) = 1)

\* C3: one load_model call fetches the model at most twice; a second fetch
\* is the offload one, made only after the first path raised; when it fails
\* the call raises.
C3_AtMostOneFallback ==
    \A k \in 1..Len(loads) :
        LET f == loads[k].fetches
        IN  /\ Len(f) <= 2
            /\ Len(f) >= 1 => f[1].how \in {"4bit", "full"}
            /\ Len(f) = 2 => /\ ~f[1].ok \/ loads[k].moved = "raised"
                             /\ f[2].how = "offload"
                             /\ ~f[2].ok => loads[k].raised

C3_Witness ==
    \E k \in 1..Len(loads) :
        /\ Len(loads[k].fetches) = 2
        /\ ~loads[k].fetches[2].ok
        /\ loads[k].raised
        /\ phase = "exited"

\* C8: with both handles set, an exception raised inside the try block is
\* answered 500 with the exception's text as detail; the handles are as the
\* call found them, and after such a failure the process still serves with
\* both handles set.
C8_ExceptionReported ==
    /\ (lastResponse.endpoint = "/generate" /\ lastResponse.raised # None)
       => /\ lastResponse.status = 500
          /\ lastResponse.body = [detail |-> lastResponse.raised.message]
          /\ lastResponse.sawModel # None
          /\ lastResponse.sawTokenizer # None
          /\ model = lastResponse.sawModel
          /\ tokenizer = lastResponse.sawTokenizer
    /\ failedBefore => (phase = "serving" /\ model # None /\ tokenizer # None)

C8_Witness ==
    /\ lastResponse.endpoint = "/generate"
    /\ lastResponse.raised # None
    /\ lastResponse.generateCalls = 1
    /\ \E r \in Requests : slots[r].st = "generating"

\* C9: at most one handler is inside model.generate and it holds the event
\* loop; while it is there no other handler starts and no response is sent.
C9_HandlersSerialize ==
    /\ [](/\ Cardinality({r \in Requests : slots[r].st = "generating"}) <= 1
          /\ \A r \in Requests : slots[r].st = "generating" => current = r)
    /\ [][\A r \in Requests :
            (slots[r].st = "generating" /\ slots'[r].st = "generating")
            => /\ lastResponse' = lastResponse
               /\ \A q \in Requests \ {r} : slots'[q].st # "generating"]_vars

C9_Witness ==
    \E r, q \in Requests : slots[r].st = "generating" /\ slots[q].st = "queued"

\* C10: a load_model call that raised has not set the model handle.
C10_FailedLoadLeavesModelUnset ==
    \A k \in 1..Len(loads) :
        loads[k].raised => loads[k].model = loads[k].modelBefore

====
